---- MODULE Spec2Model ----
(***************************************************************************)
(* Model of relais.hpa.tb: the locus registry of defs.py (LOCI,            *)
(* normalize_name, LOCI_TO_INDEX, the typing schemes) and the genotype     *)
(* profile of typing.py (class TbType).                                    *)
(*                                                                         *)
(* Conventions of the translation.                                         *)
(*  - The interpreter is CPython 2 (typing.py uses basestring): an         *)
(*    assert raises AssertionError, None orders below every int, and 'is'  *)
(*    on the small ints stored here agrees with ==.                        *)
(*  - typing.py says 'import defs' and then uses LOCI, LOCI_TO_INDEX,      *)
(*    normalize_name, NMRL_15, NMRL_24 unqualified, and phylo_type has     *)
(*    unbalanced parentheses and an 'else' without a colon.  The model     *)
(*    reads the statements as written, with the names of defs.py resolved  *)
(*    to defs.py; a name defined nowhere in the repository ('false',       *)
(*    PHYLOTYPE_II_CAS, PHYLOTYPE_II_EAI) raises NameError where it is     *)
(*    evaluated.                                                           *)
(*  - A Python str is a sequence of one-character strings; a Python value  *)
(*    is a tagged record (PyNone, PyInt, PyStr, PyList, PyBool), so that   *)
(*    values of different types can be compared.                           *)
(*  - A Python function is an operator from the receiver's state and the   *)
(*    arguments to [data, exc, ret]: the _data dict afterwards, the name   *)
(*    of the exception raised ("" for none) and the value returned.        *)
(***************************************************************************)
EXTENDS Integers, Sequences, FiniteSets, TLC

VARIABLES
  pc,             \* "import": defs.py has bound LOCI and LOCI_TO_INDEX = {} (line 67);
                  \* "ready": the module is loaded and a TbType exists
  catalog,        \* defs.LOCI, the list the registry is built from
  LOCI_TO_INDEX,  \* defs.LOCI_TO_INDEX, normalized name -> canonical id
  data,           \* TbType._data, canonical id -> PyNone or PyInt
  call,           \* the most recent call: operation, arguments, exception, result
  ncalls          \* number of __setitem__ and from_string calls made on the profile

vars == <<pc, catalog, LOCI_TO_INDEX, data, call, ncalls>>

-----------------------------------------------------------------------------
(* Python values *)

PyNone == [none |-> TRUE]

PyInt(n) == [int |-> n]

PyStr(s) == [str |-> s]

PyList(l) == [list |-> l]

PyBool(b) == [bool |-> b]

IsInt(v) == DOMAIN v = {"int"}

IsStr(v) == DOMAIN v = {"str"}

-----------------------------------------------------------------------------
(* Characters: printable ASCII, code points 32..126.  The grave accent (96)
   cannot be written in a string of this language and is left out. *)

\* code points 32..95
PrintableLow ==
  << " ", "!", "\"", "#", "$", "%", "&", "'", "(", ")", "*", "+", ",", "-", ".", "/",
     "0", "1", "2", "3", "4", "5", "6", "7", "8", "9", ":", ";", "<", "=", ">", "?",
     "@", "A", "B", "C", "D", "E", "F", "G", "H", "I", "J", "K", "L", "M", "N", "O",
     "P", "Q", "R", "S", "T", "U", "V", "W", "X", "Y", "Z", "[", "\\", "]", "^", "_" >>

\* code points 97..126
PrintableHigh ==
  << "a", "b", "c", "d", "e", "f", "g", "h", "i", "j", "k", "l", "m", "n", "o",
     "p", "q", "r", "s", "t", "u", "v", "w", "x", "y", "z", "{", "|", "}", "~" >>

Chars == {PrintableLow[i] : i \in 1..Len(PrintableLow)}
           \cup {PrintableHigh[i] : i \in 1..Len(PrintableHigh)}

CodeOf == [c \in Chars |->
             IF \E i \in 1..Len(PrintableLow) : PrintableLow[i] = c
             THEN 31 + CHOOSE i \in 1..Len(PrintableLow) : PrintableLow[i] = c
             ELSE 96 + CHOOSE i \in 1..Len(PrintableHigh) : PrintableHigh[i] = c]

\* ord(c) of a one-character string
ord(c) == CodeOf[c]

\* chr(i), for i in 32..126 other than 96
chr(i) == IF i <= 95 THEN PrintableLow[i - 31] ELSE PrintableHigh[i - 96]

upper_char(c) == IF ord(c) >= ord("a") /\ ord(c) <= ord("z") THEN chr(ord(c) - 32) ELSE c

lower_char(c) == IF ord(c) >= ord("A") /\ ord(c) <= ord("Z") THEN chr(ord(c) + 32) ELSE c

\* str.upper()
upper(s) == [i \in 1..Len(s) |-> upper_char(s[i])]

\* str.lower()
lower(s) == [i \in 1..Len(s) |-> lower_char(s[i])]

\* the characters str.strip() removes and the regular expression \s matches
IsSpace(c) == c \in {" ", "\t", "\n", "\r", "\f"}

RECURSIVE lstrip(_)
lstrip(s) == IF s # <<>> /\ IsSpace(Head(s)) THEN lstrip(Tail(s)) ELSE s

RECURSIVE rstrip(_)
rstrip(s) == IF s # <<>> /\ IsSpace(s[Len(s)]) THEN rstrip(SubSeq(s, 1, Len(s) - 1)) ELSE s

\* str.strip()
strip(s) == rstrip(lstrip(s))

\* s1 <= s2 on Python 2 byte strings: lexicographic on code points
RECURSIVE str_le(_, _)
str_le(s1, s2) ==
  IF s1 = <<>> THEN TRUE
  ELSE IF s2 = <<>> THEN FALSE
  ELSE IF Head(s1) # Head(s2) THEN ord(Head(s1)) < ord(Head(s2))
  ELSE str_le(Tail(s1), Tail(s2))

IsDigit(c) == ord(c) >= ord("0") /\ ord(c) <= ord("9")

RECURSIVE digits_value(_, _)
digits_value(s, acc) ==
  IF s = <<>> THEN acc ELSE digits_value(Tail(s), 10 * acc + (ord(Head(s)) - ord("0")))

\* int(s) of a str: surrounding whitespace dropped, an optional sign, then digits only
int_of_str(s) ==
  LET t == strip(s)
      neg == t # <<>> /\ Head(t) = "-"
      u == IF t # <<>> /\ Head(t) \in {"+", "-"} THEN Tail(t) ELSE t
  IN  IF u # <<>> /\ \A i \in 1..Len(u) : IsDigit(u[i])
      THEN [exc |-> "", ret |-> PyInt(IF neg THEN 0 - digits_value(u, 0) ELSE digits_value(u, 0))]
      ELSE [exc |-> "ValueError", ret |-> PyNone]

RECURSIVE decimal(_)
decimal(n) ==
  IF n < 10 THEN <<chr(ord("0") + n)>>
  ELSE decimal(n \div 10) \o <<chr(ord("0") + (n % 10))>>

\* "%s" % i of an int
format_int(i) == IF i < 0 THEN <<"-">> \o decimal(0 - i) ELSE decimal(i)

-----------------------------------------------------------------------------
(* defs.py *)

\* the loci: canonical name first, then its synonyms
LOCI ==
  <<
     << <<"1", "5", "4">>, <<"M", "I", "R", "U", "-", "0", "2">>, <<"M", "I", "R", "U", "-", "2">> >>,
     << <<"4", "2", "4">>, <<"V", "N", "T", "R", "-", "4", "2", "4">>, <<"M", "t", "u", "b", "0", "4">>, <<"M", "t", "u", "b", "4">> >>,
     << <<"5", "7", "7">>, <<"E", "T", "R", "-", "C">> >>,
     << <<"5", "8", "0">>, <<"M", "I", "R", "U", "-", "0", "4">>, <<"M", "I", "R", "U", "-", "4">>, <<"E", "T", "R", "-", "D">> >>,
     << <<"8", "0", "2">>, <<"M", "I", "R", "U", "-", "4", "0">> >>,
     << <<"9", "6", "0">>, <<"M", "I", "R", "U", "-", "1", "0">> >>,
     << <<"1", "6", "4", "4">>, <<"M", "I", "R", "U", "-", "1", "6">> >>,
     << <<"1", "9", "5", "5">>, <<"V", "N", "T", "R", "-", "1", "9", "5", "5">>, <<"M", "t", "u", "b", "2", "1">> >>,
     << <<"2", "0", "5", "9">>, <<"M", "I", "R", "U", "-", "2", "0">> >>,
     << <<"2", "1", "6", "3", "b">>, <<"V", "N", "T", "R", "-", "2", "1", "6", "3", "b">>, <<"Q", "U", "B", "1", "1", "b">> >>,
     << <<"2", "1", "6", "5">>, <<"E", "T", "R", "-", "A">> >>,
     << <<"2", "3", "4", "7">>, <<"V", "N", "T", "R", "-", "2", "3", "4", "7">>, <<"M", "t", "u", "b", "2", "9">> >>,
     << <<"2", "4", "0", "1">>, <<"V", "N", "T", "R", "-", "2", "4", "0", "1">>, <<"M", "t", "u", "b", "3", "0">> >>,
     << <<"2", "4", "6", "1">>, <<"E", "T", "R", "-", "B">> >>,
     << <<"2", "5", "3", "1">>, <<"M", "I", "R", "U", "-", "2", "3">> >>,
     << <<"2", "6", "8", "7">>, <<"M", "I", "R", "U", "-", "2", "4">> >>,
     << <<"2", "9", "9", "6">>, <<"M", "I", "R", "U", "-", "2", "6">> >>,
     << <<"3", "0", "0", "7">>, <<"M", "I", "R", "U", "-", "2", "7">>, <<"Q", "U", "B", "5">> >>,
     << <<"3", "1", "7", "1">>, <<"V", "N", "T", "R", "-", "3", "1", "7", "1">>, <<"M", "t", "u", "b", "3", "4">> >>,
     << <<"3", "1", "9", "2">>, <<"M", "I", "R", "U", "-", "3", "1">>, <<"E", "T", "R", "-", "E">> >>,
     << <<"3", "6", "9", "0">>, <<"V", "N", "T", "R", "-", "3", "6", "9", "0">>, <<"M", "t", "u", "b", "3", "9">> >>,
     << <<"4", "0", "5", "2">>, <<"V", "N", "T", "R", "-", "4", "0", "5", "2">>, <<"Q", "U", "B", "2", "6">> >>,
     << <<"4", "1", "5", "6">>, <<"V", "N", "T", "R", "-", "4", "1", "5", "6">>, <<"Q", "U", "B", "4", "1", "5", "6">> >>,
     << <<"4", "3", "4", "8">>, <<"M", "I", "R", "U", "-", "3", "9">> >>
  >>

ETR ==
  << <<"E", "T", "R", "-", "A">>,
     <<"E", "T", "R", "-", "B">>,
     <<"E", "T", "R", "-", "C">>,
     <<"E", "T", "R", "-", "D">>,
     <<"E", "T", "R", "-", "E">> >>

MIRU ==
  << <<"M", "I", "R", "U", "-", "2">>,
     <<"M", "I", "R", "U", "-", "4">>,
     <<"M", "I", "R", "U", "-", "1", "0">>,
     <<"M", "I", "R", "U", "-", "1", "6">>,
     <<"M", "I", "R", "U", "-", "2", "0">>,
     <<"M", "I", "R", "U", "-", "2", "3">>,
     <<"M", "I", "R", "U", "-", "2", "4">>,
     <<"M", "I", "R", "U", "-", "2", "6">>,
     <<"M", "I", "R", "U", "-", "2", "7">>,
     <<"M", "I", "R", "U", "-", "3", "1">>,
     <<"M", "I", "R", "U", "-", "3", "9">>,
     <<"M", "I", "R", "U", "-", "4", "0">> >>

VNTR ==
  ETR \o
  << <<"M", "I", "R", "U", "-", "2">>,
     <<"M", "I", "R", "U", "-", "1", "0">>,
     <<"M", "I", "R", "U", "-", "1", "6">>,
     <<"M", "I", "R", "U", "-", "2", "0">>,
     <<"M", "I", "R", "U", "-", "2", "3">>,
     <<"M", "I", "R", "U", "-", "2", "4">>,
     <<"M", "I", "R", "U", "-", "2", "6">>,
     <<"M", "I", "R", "U", "-", "2", "7">>,
     <<"M", "I", "R", "U", "-", "3", "9">>,
     <<"M", "I", "R", "U", "-", "4", "0">> >>

AUX ==
  << <<"V", "N", "T", "R", "-", "4", "2", "4">>,
     <<"V", "N", "T", "R", "-", "1", "9", "5", "5">>,
     <<"V", "N", "T", "R", "-", "2", "1", "6", "3", "b">>,
     <<"V", "N", "T", "R", "-", "2", "3", "4", "7">>,
     <<"V", "N", "T", "R", "-", "2", "4", "0", "1">>,
     <<"V", "N", "T", "R", "-", "3", "1", "7", "1">>,
     <<"V", "N", "T", "R", "-", "3", "6", "9", "0">>,
     <<"V", "N", "T", "R", "-", "4", "0", "5", "2">>,
     <<"V", "N", "T", "R", "-", "4", "1", "5", "6">> >>

NMRL_15 == VNTR

NMRL_24 == NMRL_15 \o AUX

\* NORM_RE = [\s\-\_]+
IsSeparator(c) == IsSpace(c) \/ c \in {"-", "_"}

RECURSIVE remove_separators(_)
remove_separators(s) ==
  IF s = <<>> THEN <<>>
  ELSE IF IsSeparator(Head(s)) THEN remove_separators(Tail(s))
  ELSE <<Head(s)>> \o remove_separators(Tail(s))

\* a variant of normalize_name that keeps the case of the name
normalize_name_cased(s) == remove_separators(strip(s))

\* NORM_RE.sub of the stripped, lower-cased name with the empty string
normalize_name(s) == remove_separators(lower(strip(s)))

\* d[k] = v on a dict
dict_set(d, k, v) == (k :> v) @@ d

\* the inner loop of lines 69-70, over the names x[j..] of one locus x.  (The test
\* on t is never true: it makes TLC compute t before the next iteration.)
RECURSIVE index_names(_, _, _)
index_names(table, x, j) ==
  IF j > Len(x) THEN table
  ELSE LET t == dict_set(table, normalize_name(x[j]), x[1])
       IN  IF DOMAIN t = {} THEN t ELSE index_names(t, x, j + 1)

\* the outer loop of lines 68-70, over the loci cat[i..]
RECURSIVE index_loci(_, _, _)
index_loci(table, cat, i) ==
  IF i > Len(cat) THEN table
  ELSE LET t == index_names(table, cat[i], 1)
       IN  IF DOMAIN t = {} /\ cat[i] # <<>> THEN t ELSE index_loci(t, cat, i + 1)

\* LOCI_TO_INDEX as lines 67-70 leave it for the list cat
build_index(cat) == index_loci(<<>>, cat, 1)

PHYLOTYPE_I_BEIJING ==
  <<"I", " ", "(", "B", "e", "i", "j", "i", "n", "g", ")">>

PHYLOTYPE_II_EURO_AMERICAN ==
  <<"I", "I", " ", "(", "E", "u", "r", "o", "-", "a", "m", "e", "r", "i", "c", "a", "n", ")">>

PHYLOTYPE_M_BOVIS ==
  <<"M", ".", " ", "b", "o", "v", "i", "s">>

PHYLOTYPE_M_AFRICANUM ==
  <<"M", ".", " ", "a", "f", "r", "i", "c", "a", "n", "u", "m">>

PHYLOTYPE_M_MICROTI ==
  <<"M", ".", " ", "m", "i", "c", "r", "o", "t", "i">>

-----------------------------------------------------------------------------
(* typing.py: class TbType *)

\* the default of the constructor's ambig_sym
ambig_sym == <<"-">>

\* __init__, line 82: every canonical name, set to None
fresh_data(cat) == [k \in {cat[i][1] : i \in 1..Len(cat)} |-> PyNone]

Return(d, v) == [data |-> d, exc |-> "", ret |-> v]

Raise(d, e) == [data |-> d, exc |-> e, ret |-> PyNone]

\* a variant of alpha_to_int that counts the letters from 11
alpha_to_int_from_11(c) ==
  IF c = ambig_sym THEN [exc |-> "", ret |-> PyNone]
  ELSE IF str_le(<<"0">>, c) /\ str_le(c, <<"9">>) THEN int_of_str(c)
  ELSE IF Len(c) # 1 THEN [exc |-> "TypeError", ret |-> PyNone]
  ELSE [exc |-> "", ret |-> PyInt(ord(upper(c)[1]) - ord("A") + 11)]

\* alpha_to_int (self, c); the result is [exc, ret]
alpha_to_int(c) ==
  IF c = ambig_sym THEN [exc |-> "", ret |-> PyNone]
  ELSE IF str_le(<<"0">>, c) /\ str_le(c, <<"9">>) THEN int_of_str(c)
  ELSE IF Len(c) # 1 THEN [exc |-> "TypeError", ret |-> PyNone]
  ELSE [exc |-> "", ret |-> PyInt(ord(upper(c)[1]) - ord("A") + 10)]

\* a variant of int_to_alpha that writes 10 in decimal
int_to_alpha_decimal_10(i) ==
  IF i = PyNone THEN [exc |-> "", ret |-> PyStr(ambig_sym)]
  ELSE IF i.int <= 10 THEN [exc |-> "", ret |-> PyStr(format_int(i.int))]
  ELSE IF i.int - 10 + ord("A") > 255 THEN [exc |-> "ValueError", ret |-> PyNone]
  ELSE [exc |-> "", ret |-> PyStr(<<chr(i.int - 10 + ord("A"))>>)]

\* int_to_alpha (self, i); the result is [exc, ret]
int_to_alpha(i) ==
  IF i = PyNone THEN [exc |-> "", ret |-> PyStr(ambig_sym)]
  ELSE IF i.int < 10 THEN [exc |-> "", ret |-> PyStr(format_int(i.int))]
  ELSE IF i.int - 10 + ord("A") > 255 THEN [exc |-> "ValueError", ret |-> PyNone]
  ELSE [exc |-> "", ret |-> PyStr(<<chr(i.int - 10 + ord("A"))>>)]

\* __getitem__ (self, loci)
getitem(d, loci) ==
  LET key == normalize_name(loci)
  IN  IF key \notin DOMAIN LOCI_TO_INDEX THEN Raise(d, "KeyError")
      ELSE IF LOCI_TO_INDEX[key] \notin DOMAIN d THEN Raise(d, "KeyError")
      ELSE Return(d, d[LOCI_TO_INDEX[key]])

\* __setitem__ (self, loci, value)
setitem(d, loci, value) ==
  LET conv == IF IsStr(value) THEN alpha_to_int(upper(value.str))
              ELSE IF ~IsInt(value) THEN [exc |-> "AssertionError", ret |-> PyNone]
              ELSE IF ~(0 < value.int) THEN [exc |-> "AssertionError", ret |-> PyNone]
              ELSE [exc |-> "", ret |-> value]
      key == normalize_name(loci)
  IN  IF conv.exc # "" THEN Raise(d, conv.exc)
      ELSE IF key \notin DOMAIN LOCI_TO_INDEX THEN Raise(d, "KeyError")
      ELSE Return(dict_set(d, LOCI_TO_INDEX[key], conv.ret), PyNone)

\* contains_ambigs (self)
contains_ambigs(d) == Return(d, PyBool(\E k \in DOMAIN d : d[k] = PyNone))

\* a variant of lines 175-176 that leaves the current values
clear_data_skipped(d) == d

\* from_string, lines 175-176: clear current values
clear_data(d) == [k \in DOMAIN d |-> PyNone]

\* from_string, lines 178-179: self[k] = s[i] for the scheme's loci lo..hi, in order;
\* an exception leaves the assignments made before it.  The range is split in two
\* halves done one after the other, which keeps the evaluation shallow.
RECURSIVE assign_range(_, _, _, _, _)
assign_range(d, s, scheme, lo, hi) ==
  IF lo > hi THEN Return(d, PyNone)
  ELSE IF lo = hi
  THEN IF lo > Len(s) THEN Raise(d, "IndexError")
       ELSE setitem(d, scheme[lo], PyStr(<<s[lo]>>))
  ELSE LET mid == (lo + hi) \div 2
           r == assign_range(d, s, scheme, lo, mid)
       IN  IF r.exc # "" THEN r ELSE assign_range(r.data, s, scheme, mid + 1, hi)

\* from_string, lines 166-172: the scheme when none is given.  'if len(s) == 24'
\* is followed by a separate if/else on 15, whose else evaluates the undefined
\* name 'false'.
infer_scheme(s) ==
  LET first == IF Len(s) = 24 THEN PyList(NMRL_24) ELSE PyNone
  IN  IF Len(s) = 15 THEN [exc |-> "", ret |-> PyList(NMRL_15)]
      ELSE [exc |-> "NameError", ret |-> first]

\* a variant of from_string that clears the values before it compares the lengths
from_string_clearing_first(d, s, scheme) ==
  LET sch == IF scheme = PyNone THEN infer_scheme(s) ELSE [exc |-> "", ret |-> scheme]
  IN  IF sch.exc # "" THEN Raise(d, sch.exc)
      ELSE IF Len(s) # Len(sch.ret.list) THEN Raise(clear_data(d), "AssertionError")
      ELSE assign_range(clear_data(d), s, sch.ret.list, 1, Len(sch.ret.list))

\* from_string (self, s, scheme=None)
from_string(d, s, scheme) ==
  LET sch == IF scheme = PyNone THEN infer_scheme(s) ELSE [exc |-> "", ret |-> scheme]
  IN  IF sch.exc # "" THEN Raise(d, sch.exc)
      ELSE IF Len(s) # Len(sch.ret.list) THEN Raise(d, "AssertionError")
      ELSE assign_range(clear_data(d), s, sch.ret.list, 1, Len(sch.ret.list))

\* to_array (self, scheme=None)
to_array(d, scheme) ==
  LET sch == IF scheme = PyNone THEN NMRL_24 ELSE scheme.list
      items == [i \in 1..Len(sch) |-> getitem(d, sch[i])]
  IN  IF \E i \in 1..Len(sch) : items[i].exc # "" THEN Raise(d, "KeyError")
      ELSE Return(d, PyList([i \in 1..Len(sch) |-> items[i].ret]))

\* ''.join of a list of str
RECURSIVE join(_)
join(l) == IF l = <<>> THEN <<>> ELSE Head(l) \o join(Tail(l))

\* to_string (self, scheme=None)
to_string(d, scheme) ==
  LET arr == to_array(d, scheme)
      chars == [i \in 1..Len(arr.ret.list) |-> int_to_alpha(arr.ret.list[i])]
  IN  IF arr.exc # "" THEN arr
      ELSE IF \E i \in 1..Len(chars) : chars[i].exc # "" THEN Raise(d, "ValueError")
      ELSE Return(d, PyStr(join([i \in 1..Len(chars) |-> chars[i].ret.str])))

\* x is n, for a small int n
is_int(v, n) == v = PyInt(n)

\* x in [...]
in_list(v, l) == \E n \in l : v = PyInt(n)

\* x >= n in Python 2, where None orders below every int
ge_int(v, n) == IsInt(v) /\ v.int >= n

\* phylo_type (self): the groups' tests, in order
phylo_group(d, g) ==
  LET v(name) == getitem(d, name).ret
      miru10 == v(<<"m", "i", "r", "u", "-", "1", "0">>)
      miru16 == v(<<"m", "i", "r", "u", "-", "1", "6">>)
      miru23 == v(<<"m", "i", "r", "u", "-", "2", "3">>)
      miru24 == v(<<"m", "i", "r", "u", "-", "2", "4">>)
      miru26 == v(<<"m", "i", "r", "u", "-", "2", "6">>)
      miru39 == v(<<"m", "i", "r", "u", "-", "3", "9">>)
      miru40 == v(<<"m", "i", "r", "u", "-", "4", "0">>)
      etra == v(<<"e", "t", "r", "-", "a">>)
      etrA == v(<<"e", "t", "r", "-", "A">>)
      etrb == v(<<"e", "t", "r", "-", "b">>)
      etrc == v(<<"e", "t", "r", "-", "c">>)
  IN  CASE g = 1 -> is_int(miru39, 3) /\ is_int(etra, 4) /\ is_int(etrc, 4) /\ is_int(miru39, 1)
        [] g = 2 -> in_list(miru16, {1, 2, 3}) /\ is_int(miru39, 2) /\ in_list(etrb, {1, 2})
        [] g = 3 -> is_int(miru23, 5) /\ is_int(etrc, 2)
        [] g = 4 -> is_int(miru24, 2) /\ is_int(miru26, 2)
        [] g = 5 -> is_int(miru10, 2) /\ is_int(miru40, 2) /\ is_int(etrc, 5)
        [] g = 6 -> ge_int(miru10, 4) /\ is_int(miru23, 4) /\ in_list(miru26, {3, 4, 5})
                    /\ ge_int(etra, 4)
        [] g = 7 -> is_int(miru23, 4) /\ is_int(miru40, 2) /\ ge_int(etrA, 8)

\* phylo_type (self): what each branch returns; PHYLOTYPE_II_CAS and
\* PHYLOTYPE_II_EAI are defined nowhere, so returning them raises NameError
phylo_return(d, g) ==
  CASE g = 1 -> Return(d, PyStr(PHYLOTYPE_I_BEIJING))
    [] g = 2 -> Return(d, PyStr(PHYLOTYPE_II_EURO_AMERICAN))
    [] g = 3 -> Raise(d, "NameError")
    [] g = 4 -> Raise(d, "NameError")
    [] g = 5 -> Return(d, PyStr(PHYLOTYPE_M_BOVIS))
    [] g = 6 -> Return(d, PyStr(PHYLOTYPE_M_AFRICANUM))
    [] g = 7 -> Return(d, PyStr(PHYLOTYPE_M_MICROTI))

\* phylo_type (self): the if/elif chain
phylo_type(d) ==
  IF \E g \in 1..7 : phylo_group(d, g)
  THEN phylo_return(d, CHOOSE g \in 1..7 :
                         phylo_group(d, g) /\ \A h \in 1..(g - 1) : ~phylo_group(d, h))
  ELSE Return(d, PyNone)

\* __init__ (self, data=None, scheme=None): 'if data:' skips an empty string
init(cat, s, scheme) ==
  IF s = PyNone \/ s.str = <<>> THEN Return(fresh_data(cat), PyNone)
  ELSE from_string(fresh_data(cat), s.str, scheme)

-----------------------------------------------------------------------------
(* The calls a client makes: arguments drawn from bounded sets *)

\* at most this many calls of __setitem__ and from_string on one profile
MaxCalls == 1

\* int arguments of __setitem__ range over -MaxCount..MaxCount
MaxCount == 2

\* int arguments of int_to_alpha range over 0..MaxAlpha
MaxAlpha == 36

\* the interchange alphabet: the ambiguous symbol, the digits, the upper-case letters
Alphabet ==
  << "-", "0", "1", "2", "3", "4", "5", "6", "7", "8", "9",
     "A", "B", "C", "D", "E", "F", "G", "H", "I", "J", "K", "L", "M",
     "N", "O", "P", "Q", "R", "S", "T", "U", "V", "W", "X", "Y", "Z" >>

\* the n characters that follow the alphabet's j-th, cyclically
Run(n, j) == [i \in 1..n |-> Alphabet[((j + i - 1) % Len(Alphabet)) + 1]]

\* the string of the doctests of from_string, to_string and to_array
DocString ==
  <<"3", "4", "8", "1", "0", "9", "6", "A", "2", "C", "2", "2", "8", "0", "6">>

\* a 24-character string
String24 == DocString \o <<"2", "Z", "-", "4", "1", "0", "5", "3", "9">>

\* a 10-character string
String10 == SubSeq(DocString, 1, 10)

\* 15 characters, two of them outside the interchange alphabet
StringBad == <<"3", "4", "8", "1", "0", "9", "6", "a", "2", "C", "2", "2", "8", "0", "!">>

\* 15 characters: ETR-C = 2, MIRU-23 = 5, the rest ambiguous
StringCas == <<"-", "-", "2", "-", "-", "-", "-", "-", "-", "5", "-", "-", "-", "-", "-">>

Strings == {DocString, String24, String10, StringBad, StringCas}

\* the scheme arguments of from_string
Schemes == {PyNone, PyList(NMRL_15), PyList(NMRL_24), PyList(ETR)}

\* the scheme arguments of to_string and to_array
ReadSchemes == {PyNone, PyList(NMRL_15)}

\* strings over the interchange alphabet, of both interchange lengths: every
\* character occurs at every position
CodecStrings ==
  {DocString, String24}
    \cup {Run(n, j) : n \in {Len(NMRL_15), Len(NMRL_24)}, j \in 0..(Len(Alphabet) - 1)}

CodecSchemes == {PyNone, PyList(NMRL_15), PyList(NMRL_24)}

\* s with every "-" replaced by c
RECURSIVE replace_hyphen(_, _)
replace_hyphen(s, c) ==
  IF s = <<>> THEN <<>>
  ELSE (IF Head(s) = "-" THEN c ELSE <<Head(s)>>) \o replace_hyphen(Tail(s), c)

\* the spellings of a name: as listed, lower case, upper case with an underscore,
\* with a blank and surrounded by blanks, without separator
Spellings(name) ==
  { name,
    lower(name),
    replace_hyphen(upper(name), <<"_">>),
    <<" ">> \o replace_hyphen(name, <<" ">>) \o <<" ", " ">>,
    replace_hyphen(name, <<>>) }

\* every name of the locus x, in every spelling
LocusNames(x) == UNION {Spellings(x[j]) : j \in 1..Len(x)}

AllNames == UNION {LocusNames(LOCI[i]) : i \in 1..Len(LOCI)}

\* names of no locus
UnknownNames == { <<"E", "T", "R", "-", "F">>, <<"M", "I", "R", "U">>, <<>> }

\* the names the main specification passes: three of AllNames (two of them of
\* one locus) and an unknown one
Names ==
  { <<"E", "T", "R", "-", "D">>, <<"m", "i", "r", "u", "-", "0", "4">>,
    <<" ", "M", "I", "R", "U", " ", "2", "3", " ", " ">>, <<"E", "T", "R", "-", "F">> }

IntValues == {PyInt(n) : n \in (0 - MaxCount)..MaxCount}

StrValues ==
  { PyStr(<<"-">>), PyStr(<<"0">>), PyStr(<<"Z">>), PyStr(<<"a">>), PyStr(<<"!">>),
    PyStr(<<"1", "0">>), PyStr(<<>>) }

Values == IntValues \cup StrValues \cup {PyNone}

\* the values the specification of the names passes
NameValues == {PyInt(5), PyStr(<<"B">>)}

\* the arguments of the constructor
CtorArgs ==
  { <<PyNone, PyNone>>, <<PyStr(DocString), PyNone>>, <<PyStr(String24), PyNone>>,
    <<PyStr(String24), PyList(NMRL_24)>> }

-----------------------------------------------------------------------------
(* State machine *)

NoCall == [op |-> "", args |-> <<>>, exc |-> "", ret |-> PyNone]

\* names for the lists of loci the registry is built from besides LOCI
TestNames ==
  { <<"A", "-", "B">>, <<"A", "B">>, <<"a", "_", "b">>, <<" ", "a", "b", " ">>,
    <<"C", "D">>, <<"C", "-", "D">>, <<"E", "F">>, <<"2">> }

\* LOCI, and the lists of two loci "1" and "2" with one synonym each
Catalogs ==
  {LOCI} \cup { << <<<<"1">>, a>>, <<<<"2">>, b>> >> : a \in TestNames, b \in TestNames }

\* defs.py has run to line 67: LOCI is bound, LOCI_TO_INDEX is empty
InitImport ==
  /\ pc = "import"
  /\ catalog \in Catalogs
  /\ LOCI_TO_INDEX = <<>>
  /\ data = <<>>
  /\ call = NoCall
  /\ ncalls = 0

\* defs.py is loaded and TbType (data, scheme) has returned an object
Init ==
  /\ pc = "ready"
  /\ catalog = LOCI
  /\ LOCI_TO_INDEX = build_index(LOCI)
  /\ \E a \in CtorArgs :
       LET r == init(LOCI, a[1], a[2])
       IN  /\ r.exc = ""
           /\ data = r.data
           /\ call = [op |-> "__init__", args |-> a, exc |-> "", ret |-> PyNone]
  /\ ncalls = 0

\* lines 67-70 of defs.py
LoadDefs ==
  /\ pc = "import"
  /\ pc' = "ready"
  /\ LOCI_TO_INDEX' = build_index(catalog)
  /\ call' = [op |-> "import defs", args |-> <<>>, exc |-> "", ret |-> PyNone]
  /\ UNCHANGED <<catalog, data, ncalls>>

\* a method call on the profile with result r
Called(op, args, r) ==
  /\ pc = "ready"
  /\ data' = r.data
  /\ call' = [op |-> op, args |-> args, exc |-> r.exc, ret |-> r.ret]
  /\ UNCHANGED <<pc, catalog, LOCI_TO_INDEX>>

CallSetItem(loci, value) ==
  LET r == setitem(data, loci, value)
  IN  /\ ncalls < MaxCalls
      /\ Called("__setitem__", <<PyStr(loci), value>>, r)
      /\ ncalls' = ncalls + 1

CallGetItem(loci) ==
  LET r == getitem(data, loci)
  IN  Called("__getitem__", <<PyStr(loci)>>, r) /\ UNCHANGED ncalls

CallContainsAmbigs ==
  LET r == contains_ambigs(data)
  IN  Called("contains_ambigs", <<>>, r) /\ UNCHANGED ncalls

CallFromString(s, scheme) ==
  LET r == from_string(data, s, scheme)
  IN  /\ ncalls < MaxCalls
      /\ Called("from_string", <<PyStr(s), scheme>>, r)
      /\ ncalls' = ncalls + 1

CallToString(scheme) ==
  LET r == to_string(data, scheme)
  IN  Called("to_string", <<scheme>>, r) /\ UNCHANGED ncalls

CallToArray(scheme) ==
  LET r == to_array(data, scheme)
  IN  Called("to_array", <<scheme>>, r) /\ UNCHANGED ncalls

CallAlphaToInt(c) ==
  LET r == alpha_to_int(c)
  IN  Called("alpha_to_int", <<PyStr(c)>>, [data |-> data, exc |-> r.exc, ret |-> r.ret])
      /\ UNCHANGED ncalls

CallIntToAlpha(i) ==
  LET r == int_to_alpha(i)
  IN  Called("int_to_alpha", <<i>>, [data |-> data, exc |-> r.exc, ret |-> r.ret])
      /\ UNCHANGED ncalls

CallPhyloType ==
  LET r == phylo_type(data)
  IN  Called("phylo_type", <<>>, r) /\ UNCHANGED ncalls

\* the main specification: every method, on a few names, values and strings
SetAny == \E loci \in Names, value \in Values : CallSetItem(loci, value)

GetAny == \E loci \in Names : CallGetItem(loci)

DecodeAny == \E s \in Strings, scheme \in Schemes : CallFromString(s, scheme)

EncodeAny == \E scheme \in ReadSchemes : CallToString(scheme)

ArrayAny == \E scheme \in ReadSchemes : CallToArray(scheme)

Next == SetAny \/ GetAny \/ CallContainsAmbigs \/ DecodeAny \/ EncodeAny \/ ArrayAny \/ CallPhyloType

Spec == Init /\ [][Next]_vars

\* the codec: from_string and to_string on the strings of the interchange alphabet
DecodeCodec == \E s \in CodecStrings, scheme \in CodecSchemes : CallFromString(s, scheme)

EncodeCodec == \E scheme \in CodecSchemes : CallToString(scheme)

NextCodec == DecodeCodec \/ EncodeCodec

SpecCodec == Init /\ [][NextCodec]_vars

\* the names: __setitem__ under every spelling of every name, as the first call
\* on the object
SetNamed ==
  /\ call.op = "__init__"
  /\ \E loci \in AllNames \cup UnknownNames, value \in NameValues : CallSetItem(loci, value)

NextNames == SetNamed

SpecNames == Init /\ [][NextNames]_vars

\* the character conversions, on every printable character and every count
ConvertChar == \E c \in Chars : CallAlphaToInt(<<c>>)

ConvertCount == \E i \in {PyNone} \cup {PyInt(n) : n \in 0..MaxAlpha} : CallIntToAlpha(i)

NextAlpha == ConvertChar \/ ConvertCount

SpecAlpha == Init /\ [][NextAlpha]_vars

\* the registry: defs.py loaded with LOCI and with other lists of loci
NextImport == LoadDefs

SpecImport == InitImport /\ [][NextImport]_vars

-----------------------------------------------------------------------------
(* Properties *)

\* the count a character of the interchange alphabet stands for: none for the
\* ambiguous symbol, 0-9 for the digits, 10-35 for the letters
CountOf(c) ==
  LET n == CHOOSE i \in 1..Len(Alphabet) : Alphabet[i] = c
  IN  IF n = 1 THEN PyNone ELSE PyInt(n - 2)

InAlphabet(s) == \A i \in 1..Len(s) : \E n \in 1..Len(Alphabet) : Alphabet[n] = s[i]

\* the canonical name of the locus that lists the name, in one of its spellings
CanonicalByName ==
  [name \in AllNames |->
     LET i == CHOOSE n \in 1..Len(LOCI) : name \in LocusNames(LOCI[n]) IN LOCI[i][1]]

CanonicalOf(name) == CanonicalByName[name]

\* every name, in every spelling, of the locus with the canonical name
NamesOf ==
  [id \in {LOCI[i][1] : i \in 1..Len(LOCI)} |->
     UNION {LocusNames(LOCI[i]) : i \in {n \in 1..Len(LOCI) : LOCI[n][1] = id}}]

CanonicalNames == {LOCI[i][1] : i \in 1..Len(LOCI)}

\* C1: from_string (s, scheme) with one of the two interchange schemes, on a string
\* of the scheme's length over the interchange alphabet, succeeds whatever the
\* profile held, and to_string (scheme) then returns s.
C1_RoundTrip ==
  (/\ call.op = "from_string"
   /\ call.args[2] \in {PyList(NMRL_15), PyList(NMRL_24)}
   /\ Len(call.args[1].str) = Len(call.args[2].list)
   /\ InAlphabet(call.args[1].str))
  => /\ call.exc = ""
     /\ to_string(data, call.args[2]) = Return(data, call.args[1])

C1_Witness ==
  /\ call.op = "from_string"
  /\ call.args = <<PyStr(String24), PyList(NMRL_24)>>
  /\ call.exc = ""
  /\ to_string(data, PyList(NMRL_24)).ret = PyStr(String24)

\* C2: from_string without a scheme succeeds on a string of 15 and on a string of
\* 24 characters and fails on every other length.
C2_SchemeInferred ==
  (call.op = "from_string" /\ call.args[2] = PyNone)
  => IF Len(call.args[1].str) \in {Len(NMRL_15), Len(NMRL_24)}
     THEN call.exc = ""
     ELSE call.exc # ""

\* C3: __setitem__ of a known name with an int stores every int >= 0, 0 included,
\* and raises on every negative int; with "Z" it stores 35.
C3_SetAcceptsCounts ==
  (call.op = "__setitem__" /\ call.args[1].str \in AllNames)
  => /\ IsInt(call.args[2])
        => IF call.args[2].int >= 0
           THEN call.exc = "" /\ data[CanonicalOf(call.args[1].str)] = call.args[2]
           ELSE call.exc # ""
     /\ call.args[2] = PyStr(<<"Z">>)
        => call.exc = "" /\ data[CanonicalOf(call.args[1].str)] = PyInt(35)

\* C4: the profile's keys are exactly the canonical names, and every value is
\* None or an int >= 0.
C4_WellFormed ==
  pc = "ready"
  => /\ DOMAIN data = CanonicalNames
     /\ \A k \in DOMAIN data : data[k] = PyNone \/ (IsInt(data[k]) /\ data[k].int >= 0)

C6_Inverses ==
  /\ (call.op = "alpha_to_int" /\ InAlphabet(call.args[1].str))
     => /\ call.exc = ""
        /\ call.ret = CountOf(call.args[1].str[1])
        /\ int_to_alpha(call.ret) = [exc |-> "", ret |-> call.args[1]]
  /\ (call.op = "int_to_alpha"
      /\ (call.args[1] = PyNone \/ call.args[1].int \in 0..(Len(Alphabet) - 2)))
     => /\ call.exc = ""
        /\ Len(call.ret.str) = 1
        /\ InAlphabet(call.ret.str)
        /\ alpha_to_int(call.ret.str) = [exc |-> "", ret |-> call.args[1]]

C6_Witness ==
  /\ call.op = "alpha_to_int"
  /\ call.args = <<PyStr(<<"Z">>)>>
  /\ call.ret = PyInt(35)
  /\ int_to_alpha(call.ret).ret = PyStr(<<"Z">>)

\* C7: after a successful from_string on a string over the interchange alphabet,
\* the scheme's i-th locus holds the count of the i-th character and every locus
\* outside the scheme is None, whatever the profile held; after a 15-character
\* string, to_string () returns it followed by nine ambiguous symbols.
C7_DecodeOverwrites ==
  (/\ call.op = "from_string"
   /\ call.exc = ""
   /\ InAlphabet(call.args[1].str))
  => LET s == call.args[1].str
         scheme == IF call.args[2] # PyNone THEN call.args[2].list
                   ELSE IF Len(s) = Len(NMRL_15) THEN NMRL_15 ELSE NMRL_24
         used == {CanonicalOf(scheme[i]) : i \in 1..Len(scheme)}
     IN  /\ Len(s) = Len(scheme)
         /\ \A i \in 1..Len(scheme) : data[CanonicalOf(scheme[i])] = CountOf(s[i])
         /\ \A k \in CanonicalNames \ used : data[k] = PyNone
         /\ scheme = NMRL_15
            => to_string(data, PyNone)
                 = Return(data, PyStr(s \o [i \in 1..(Len(NMRL_24) - Len(NMRL_15)) |-> "-"]))

C7_Witness ==
  /\ call.op = "from_string"
  /\ call.args = <<PyStr(DocString), PyList(NMRL_15)>>
  /\ call.exc = ""
  /\ data[<<"2", "1", "6", "5">>] = PyInt(3)
  /\ data[<<"4", "1", "5", "6">>] = PyNone
  /\ Len(to_string(data, PyNone).ret.str) = Len(NMRL_24)

\* C8: from_string with a scheme given whose length is not the string's raises
\* AssertionError and leaves every locus as it was.
C8_LengthMismatch ==
  [][(/\ call'.op = "from_string"
      /\ call'.args[2] # PyNone
      /\ Len(call'.args[1].str) # Len(call'.args[2].list))
     => call'.exc = "AssertionError" /\ data' = data]_vars

C8_Witness ==
  /\ call.op = "from_string"
  /\ call.args = <<PyStr(DocString), PyList(NMRL_24)>>
  /\ call.exc = "AssertionError"
  /\ data[<<"4", "1", "5", "6">>] = PyInt(9)

\* two names of two different loci of the list normalize to the same key
Collides(cat) ==
  \E i \in 1..Len(cat), j \in 1..Len(cat) :
    /\ cat[i][1] # cat[j][1]
    /\ \E m \in 1..Len(cat[i]), n \in 1..Len(cat[j]) :
         normalize_name(cat[i][m]) = normalize_name(cat[j][n])

\* C9: loading defs.py with a list of loci in which two names of different loci
\* normalize to the same key fails; loaded with LOCI, every name of LOCI, in
\* every spelling, maps to the canonical name of its own locus.
C9_CollisionRejected ==
  (pc = "ready" /\ call.op = "import defs")
  => /\ Collides(catalog) => call.exc # ""
     /\ catalog = LOCI
        => \A i \in 1..Len(LOCI) : \A b \in LocusNames(LOCI[i]) :
             LOCI_TO_INDEX[normalize_name(b)] = LOCI[i][1]

\* C10: phylo_type returns the label of the first group whose tests all hold, None
\* when no group's do, and raises nothing; a group with an ambiguous locus does
\* not match.
C10_PhyloType ==
  call.op = "phylo_type"
  => /\ call.exc = ""
     /\ (call.ret = PyNone) <=> (\A g \in 1..7 : ~phylo_group(data, g))
     /\ (\A k \in DOMAIN data : data[k] = PyNone) => call.ret = PyNone

====
